---------------------------- MODULE Spec2Model ----------------------------
(***************************************************************************)
(* A model of the iterable-cpp iteration adapter:                          *)
(*   - Iterable::Detail::IteratorCore  (include/iterable/iterator.h),      *)
(*     the synthesized random-access iterator: a back-reference to the     *)
(*     host and an `int current_` position;                                *)
(*   - Iterable::For                   (include/iterable/iterable.h),      *)
(*     the mixin whose begin()/end() return either the synthesized         *)
(*     iterator or, when the host has a public data_, data_'s iterators;   *)
(*   - ::Iterable<D>::Iterator         (include/iterable.h), the older     *)
(*     adapter whose position is a std::uint64_t.                          *)
(*                                                                         *)
(* Integer widths are kept, scaled down: `int` has IntBits bits and        *)
(* std::ptrdiff_t / std::uint64_t have PtrBits bits (IntBits < PtrBits,    *)
(* as 32 < 64).  A narrowing conversion is modelled by what it does        *)
(* (reduction modulo 2^width); signed overflow and an out-of-range         *)
(* dereference are undefined behaviour, which the spec leaves to the       *)
(* caller: the actions are guarded so that the caller never causes them.   *)
(***************************************************************************)
EXTENDS Integers, Sequences, FiniteSets, TLC

VARIABLES
  H,      \* the host: its mixin, whether it has a public data_, its elements
  it,     \* the two iterator objects of the caller, it.i and it.j
  last,   \* the last operation applied: its operands and what it returned
  pc,     \* position of the caller's program (loop / sort), "alg" otherwise
  acc     \* locals of the caller's program

vars == <<H, it, last, pc, acc>>

-----------------------------------------------------------------------------
(* Bounds of the model *)

\* width of `int` (32 in the build), scaled down
IntBits == 5
\* width of std::ptrdiff_t and std::uint64_t (64 in the build), scaled down
PtrBits == 6
\* longest host drawn at random
MaxLen == 2

IntMod == 2 ^ IntBits
IntMin == -(2 ^ (IntBits - 1))
IntMax == 2 ^ (IntBits - 1) - 1
PtrMin == -(2 ^ (PtrBits - 1))
PtrMax == 2 ^ (PtrBits - 1) - 1
U64Mod == 2 ^ PtrBits

IntT == IntMin .. IntMax
PtrT == PtrMin .. PtrMax
\* the element values hosts are filled with
Values == {1, 2}

\* the std::ptrdiff_t offsets the caller passes
Offsets == {PtrMin, -2, -1, 0, 1, 2, IntMax + 1, PtrMax}

SeqsUpTo(S, n) == UNION {[1 .. m -> S] : m \in 0 .. n}

-----------------------------------------------------------------------------
(* Conversions *)

\* std::ptrdiff_t -> int, the `int current` parameter of the constructor
ToInt(x) == ((x - IntMin) % IntMod) + IntMin

\* signed -> std::uint64_t, the `std::uint64_t current` parameter / member
ToU64(x) == x % U64Mod

\* int (op) std::ptrdiff_t is computed in std::ptrdiff_t: defined iff it fits
PtrDefined(x) == x \in PtrT
\* int (op) int is computed in int: defined iff it fits
IntDefined(x) == x \in IntT

-----------------------------------------------------------------------------
(* The host D (the facility does not own it): Length() and operator[] *)

\* D::Length(), as For::end() calls it
Length(h) == Len(h.elems)

\* a reference to an element: the storage it lives in and its index there
ElemRef(i) == [store |-> "elems", idx |-> i]
DataRef(i) == [store |-> "data_", idx |-> i]
NoRef == [store |-> "none", idx |-> 0]

\* does the reference denote an element that exists
Valid(h, r) ==
  \/ r.store = "elems" /\ r.idx \in 0 .. Len(h.elems) - 1
  \/ r.store = "data_" /\ r.idx \in 0 .. Len(h.data_) - 1

\* a slip: the iterator reads a copy of the host taken when iteration began
ReadSnapshot(h, r) == acc.h0[r.idx + 1]

\* reading through a reference
Read(h, r) ==
  IF r.store = "elems" THEN h.elems[r.idx + 1] ELSE h.data_[r.idx + 1]

\* assigning through a reference: the element it denotes, nothing else
Store(h, r, v) ==
  IF r.store = "elems"
  THEN [h EXCEPT !.elems[r.idx + 1] = v]
  ELSE [h EXCEPT !.data_[r.idx + 1] = v]

-----------------------------------------------------------------------------
(* Detail::IteratorCore<D, I>  (iterator.h) *)

\* IteratorCore(D *data, int current): the position is narrowed to int.
\* cnst says whether D is const (Iterator<const D, T>).
IteratorCore(cnst, current) ==
  [impl |-> "core", cnst |-> cnst, current_ |-> ToInt(current)]

\* a slip: HandledReturn drops the constness of D
HandledReturnNeverConst(t) == FALSE

\* HandledReturn<D>: the element reference is const iff D is const
HandledReturnIsConst(t) == t.cnst

\* a slip: the increment advances by two
CorePreIncByTwo(t) ==
  LET n == [t EXCEPT !.current_ = @ + 2]
  IN  [self |-> n, ret |-> n, byRef |-> TRUE]

\* operator++(): current_++, returns Reference()
CorePreInc(t) ==
  LET n == [t EXCEPT !.current_ = @ + 1]
  IN  [self |-> n, ret |-> n, byRef |-> TRUE]

\* a slip: the postfix increment returns the advanced iterator
CorePostIncReturnsNew(t) ==
  LET n == [t EXCEPT !.current_ = @ + 1]
  IN  [self |-> n, ret |-> n, byRef |-> FALSE]

\* operator++(int): temp = *this; current_++; returns temp by value
CorePostInc(t) ==
  [self |-> [t EXCEPT !.current_ = @ + 1], ret |-> t, byRef |-> FALSE]

\* operator--(): current_--, returns Reference()
CorePreDec(t) ==
  LET n == [t EXCEPT !.current_ = @ - 1]
  IN  [self |-> n, ret |-> n, byRef |-> TRUE]

\* operator--(int): temp = *this; current_--; returns temp by value
CorePostDec(t) ==
  [self |-> [t EXCEPT !.current_ = @ - 1], ret |-> t, byRef |-> FALSE]

\* a slip: operator<= written with <
CoreCmpLeIsLt(a, b) ==
  [eq |-> a.current_ = b.current_,
   ne |-> a.current_ # b.current_,
   lt |-> a.current_ < b.current_,
   gt |-> a.current_ > b.current_,
   le |-> a.current_ < b.current_,
   ge |-> a.current_ >= b.current_]

\* operator== != < > <= >= : each compares current_ with other.current_
CoreCmp(a, b) ==
  [eq |-> a.current_ = b.current_,
   ne |-> a.current_ # b.current_,
   lt |-> a.current_ < b.current_,
   gt |-> a.current_ > b.current_,
   le |-> a.current_ <= b.current_,
   ge |-> a.current_ >= b.current_]

\* operator*(): data_->operator[](current_)
CoreDeref(t) == ElemRef(t.current_)

\* operator+(std::ptrdiff_t n): I(data_, current_ + n)
CorePlus(t, n) == IteratorCore(t.cnst, t.current_ + n)

\* a slip: operator-(n) adds n
CoreMinusAdds(t, n) == IteratorCore(t.cnst, t.current_ + n)

\* operator-(std::ptrdiff_t n): I(data_, current_ - n)
CoreMinus(t, n) == IteratorCore(t.cnst, t.current_ - n)

\* operator-(const IteratorCore &other): current_ - other.current_
CoreDiff(a, b) == a.current_ - b.current_

\* operator+=(std::ptrdiff_t n): current_ += n, returns Reference()
CorePlusAssign(t, n) ==
  LET m == [t EXCEPT !.current_ = ToInt(@ + n)]
  IN  [self |-> m, ret |-> m, byRef |-> TRUE]

\* operator-=(std::ptrdiff_t n): current_ -= n, returns Reference()
CoreMinusAssign(t, n) ==
  LET m == [t EXCEPT !.current_ = ToInt(@ - n)]
  IN  [self |-> m, ret |-> m, byRef |-> TRUE]

\* a slip: the subscript indexes from the start of the host
CoreSubscriptFromStart(t, n) == ElemRef(n)

\* operator[](std::ptrdiff_t n): dereference of (this + n)
CoreSubscript(t, n) == CoreDeref(CorePlus(t, n))

-----------------------------------------------------------------------------
(* ::Iterable<D>::Iterator<S>  (include/iterable.h), position std::uint64_t *)

\* Iterator(Self &self, std::uint64_t current)
LegacyIterator(current) ==
  [impl |-> "legacy", cnst |-> FALSE, current_ |-> ToU64(current)]

\* operator++(): current_++; return *this
LegacyPreInc(t) ==
  LET n == [t EXCEPT !.current_ = ToU64(@ + 1)]
  IN  [self |-> n, ret |-> n, byRef |-> TRUE]

\* operator++(int): temp = *this; operator++(); return temp
LegacyPostInc(t) ==
  [self |-> LegacyPreInc(t).self, ret |-> t, byRef |-> FALSE]

\* operator--(): current_--; return *this
LegacyPreDec(t) ==
  LET n == [t EXCEPT !.current_ = ToU64(@ - 1)]
  IN  [self |-> n, ret |-> n, byRef |-> TRUE]

\* operator--(int): temp = *this; operator--(); return temp
LegacyPostDec(t) ==
  [self |-> LegacyPreDec(t).self, ret |-> t, byRef |-> FALSE]

\* operator== != > < >= <= : != , >= and <= are written as negations
LegacyCmp(a, b) ==
  LET eq == a.current_ = b.current_
      gt == a.current_ > b.current_
      lt == a.current_ < b.current_
  IN  [eq |-> eq, ne |-> ~eq, lt |-> lt, gt |-> gt, le |-> ~gt, ge |-> ~lt]

\* operator*(): self_[current_]
LegacyDeref(t) == ElemRef(t.current_)

\* operator+(std::ptrdiff_t value): Iterator(self_, current_ + value)
LegacyPlus(t, n) == LegacyIterator(t.current_ + n)

\* operator-(std::ptrdiff_t value): Iterator(self_, current_ - value)
LegacyMinus(t, n) == LegacyIterator(t.current_ - n)

\* operator+=(std::ptrdiff_t value)
LegacyPlusAssign(t, n) ==
  LET m == [t EXCEPT !.current_ = ToU64(@ + n)]
  IN  [self |-> m, ret |-> m, byRef |-> TRUE]

\* operator-=(std::ptrdiff_t value)
LegacyMinusAssign(t, n) ==
  LET m == [t EXCEPT !.current_ = ToU64(@ - n)]
  IN  [self |-> m, ret |-> m, byRef |-> TRUE]

\* operator[](std::ptrdiff_t index): self_[current_ + index]
LegacySubscript(t, n) == ElemRef(ToU64(t.current_ + n))

-----------------------------------------------------------------------------
(* The iterators of a public data_ (the delegated handle, e.g. a buffer) *)

NativeIterator(cnst, current) ==
  [impl |-> "native", cnst |-> cnst, current_ |-> current]

NativePreInc(t) ==
  LET n == [t EXCEPT !.current_ = @ + 1]
  IN  [self |-> n, ret |-> n, byRef |-> TRUE]

NativeCmp(a, b) ==
  [eq |-> a.current_ = b.current_,
   ne |-> a.current_ # b.current_,
   lt |-> a.current_ < b.current_,
   gt |-> a.current_ > b.current_,
   le |-> a.current_ <= b.current_,
   ge |-> a.current_ >= b.current_]

NativeDeref(t) == DataRef(t.current_)

-----------------------------------------------------------------------------
(* The operation the compiler selects for the iterator's type *)

OpPreInc(t) ==
  CASE t.impl = "core" -> CorePreInc(t)
    [] t.impl = "legacy" -> LegacyPreInc(t)
    [] OTHER -> NativePreInc(t)

OpPostInc(t) == IF t.impl = "core" THEN CorePostInc(t) ELSE LegacyPostInc(t)

OpPreDec(t) == IF t.impl = "core" THEN CorePreDec(t) ELSE LegacyPreDec(t)

OpPostDec(t) == IF t.impl = "core" THEN CorePostDec(t) ELSE LegacyPostDec(t)

OpCmp(a, b) ==
  CASE a.impl = "core" -> CoreCmp(a, b)
    [] a.impl = "legacy" -> LegacyCmp(a, b)
    [] OTHER -> NativeCmp(a, b)

OpDeref(t) ==
  CASE t.impl = "core" -> CoreDeref(t)
    [] t.impl = "legacy" -> LegacyDeref(t)
    [] OTHER -> NativeDeref(t)

OpPlus(t, n) == IF t.impl = "core" THEN CorePlus(t, n) ELSE LegacyPlus(t, n)

OpMinus(t, n) == IF t.impl = "core" THEN CoreMinus(t, n) ELSE LegacyMinus(t, n)

OpPlusAssign(t, n) ==
  IF t.impl = "core" THEN CorePlusAssign(t, n) ELSE LegacyPlusAssign(t, n)

OpMinusAssign(t, n) ==
  IF t.impl = "core" THEN CoreMinusAssign(t, n) ELSE LegacyMinusAssign(t, n)

OpSubscript(t, n) ==
  IF t.impl = "core" THEN CoreSubscript(t, n) ELSE LegacySubscript(t, n)

\* The arithmetic of the operation is defined (no signed overflow): the
\* uint64 position of the older iterator wraps, the int position must fit.
StepDefined(t, d) == t.impl = "core" => IntDefined(t.current_ + d)
OffsetDefined(t, n) == t.impl = "core" => PtrDefined(t.current_ + n)

\* two iterators have the same type, so that a binary operator compiles
SameType(a, b) == a.impl = b.impl /\ a.cnst = b.cnst

-----------------------------------------------------------------------------
(* Iterable::For<D, T>  (iterable/iterable.h) and ::Iterable<D> (iterable.h) *)

\* a slip: the data_ handle is never detected, begin() always synthesizes
For_beginNoDelegation(h, view) == IteratorCore(view = "const", 0)

\* For::begin() / begin() const
For_begin(h, view) ==
  IF h.HasPubContainer
  THEN NativeIterator(view = "const", 0)
  ELSE IteratorCore(view = "const", 0)

\* a slip: end() is placed on the last element
For_endOnLast(h, view) ==
  IF h.HasPubContainer
  THEN NativeIterator(view = "const", Len(h.data_))
  ELSE IteratorCore(view = "const", Length(h) - 1)

\* For::end() / end() const
For_end(h, view) ==
  IF h.HasPubContainer
  THEN NativeIterator(view = "const", Len(h.data_))
  ELSE IteratorCore(view = "const", Length(h))

\* For::cbegin() const: return begin()
For_cbegin(h) == For_begin(h, "const")

\* For::cend() const: return end()
For_cend(h) == For_end(h, "const")

\* ::Iterable<D>::begin(): Iterator<Derived>(Cast(), 0)
Iterable_begin(h) == LegacyIterator(0)

\* ::Iterable<D>::end(): Iterator<Derived>(Cast(), Cast().GetLength())
Iterable_end(h) == LegacyIterator(Length(h))

\* the entry points a caller can use: "mut"  begin()/end() on a mutable host,
\* "const" begin()/end() on a constant host, "c" cbegin()/cend().  The older
\* mixin's constant overloads bind a const host to Self&, which does not
\* compile, so that mixin offers the mutable view only.
Views(h) == IF h.mixin = "For" THEN {"mut", "const", "c"} ELSE {"mut"}

Begin(h, view) ==
  IF h.mixin = "For"
  THEN IF view = "c" THEN For_cbegin(h) ELSE For_begin(h, view)
  ELSE Iterable_begin(h)

End(h, view) ==
  IF h.mixin = "For"
  THEN IF view = "c" THEN For_cend(h) ELSE For_end(h, view)
  ELSE Iterable_end(h)

-----------------------------------------------------------------------------
(* State *)

NoIt == [impl |-> "none", cnst |-> FALSE, current_ |-> 0]
NoCmp == [eq |-> FALSE, ne |-> FALSE, lt |-> FALSE,
          gt |-> FALSE, le |-> FALSE, ge |-> FALSE]
NoLast ==
  [op |-> "none", x |-> "-", view |-> "-", k |-> 0, pre |-> NoIt,
   oth |-> NoIt, rit |-> NoIt, byRef |-> FALSE, rint |-> 0, ref |-> NoRef,
   ref2 |-> NoRef, cmp |-> NoCmp, val |-> 0]
NoAcc == [view |-> "-", visited |-> <<>>, vals |-> <<>>, sum |-> 0,
          val |-> 0, h0 |-> <<>>]

Host(mixin, pub, elems, data) ==
  [mixin |-> mixin, HasPubContainer |-> pub, elems |-> elems, data_ |-> data]

Names == {"i", "j"}
Other(x) == IF x = "i" THEN "j" ELSE "i"

\* it.j is a cursor its user keeps inside [begin, end]; it.i goes anywhere,
\* except in a program that reads and writes elements (pc = "elem")
KeepJ(x, t) == (x = "j" \/ pc = "elem") => t.current_ \in 0 .. Length(H)

-----------------------------------------------------------------------------
(* Spec: a caller applying the iterator's operations one at a time *)

Init ==
  /\ \E m \in {"For", "Iterable"}, e \in SeqsUpTo({1}, MaxLen) :
       H = Host(m, FALSE, e, <<>>)
  /\ \E v \in Views(H) : it = [i |-> Begin(H, v), j |-> Begin(H, v)]
  /\ last = NoLast
  /\ pc = "alg"
  /\ acc = [NoAcc EXCEPT !.h0 = H.elems]

\* The caller evaluates one full expression at a time: an operation starts
\* when no result is pending, and AReturn ends the expression (its result
\* and temporaries are gone, the iterators and the host stay as they are).
Idle == last.op = "none"

AReturn ==
  /\ pc \in {"alg", "elem"}
  /\ ~Idle
  /\ last' = NoLast
  /\ UNCHANGED <<H, it, pc, acc>>

\* x = host.begin() / host.cbegin()
ABegin(x, view) ==
  /\ Idle
  /\ view \in Views(H)
  /\ it' = [it EXCEPT ![x] = Begin(H, view)]
  /\ last' = [NoLast EXCEPT !.op = "begin", !.x = x, !.view = view,
                            !.rit = Begin(H, view)]
  /\ UNCHANGED <<H, pc, acc>>

\* x = host.end() / host.cend()
AEnd(x, view) ==
  /\ Idle
  /\ view \in Views(H)
  /\ it' = [it EXCEPT ![x] = End(H, view)]
  /\ last' = [NoLast EXCEPT !.op = "end", !.x = x, !.view = view,
                            !.rit = End(H, view)]
  /\ UNCHANGED <<H, pc, acc>>

\* an operator that changes the iterator x it is applied to
Mutate(x, op, k, r) ==
  /\ Idle
  /\ KeepJ(x, r.self)
  /\ it' = [it EXCEPT ![x] = r.self]
  /\ last' = [NoLast EXCEPT !.op = op, !.x = x, !.k = k, !.pre = it[x],
                            !.rit = r.ret, !.byRef = r.byRef]
  /\ UNCHANGED <<H, pc, acc>>

\* ++x
APreInc(x) == StepDefined(it[x], 1) /\ Mutate(x, "preinc", 0, OpPreInc(it[x]))
\* x++
APostInc(x) == StepDefined(it[x], 1) /\ Mutate(x, "postinc", 0, OpPostInc(it[x]))
\* --x
APreDec(x) == StepDefined(it[x], -1) /\ Mutate(x, "predec", 0, OpPreDec(it[x]))
\* x--
APostDec(x) == StepDefined(it[x], -1) /\ Mutate(x, "postdec", 0, OpPostDec(it[x]))
\* x += k
APlusAssign(x, k) ==
  OffsetDefined(it[x], k) /\ Mutate(x, "pluseq", k, OpPlusAssign(it[x], k))
\* x -= k
AMinusAssign(x, k) ==
  OffsetDefined(it[x], -k) /\ Mutate(x, "minuseq", k, OpMinusAssign(it[x], k))

\* (++x, --x) and (x++, x--): the decrement that follows an increment of x
ARoundTrip(x) ==
  /\ pc = "alg"
  /\ last.op \in {"preinc", "postinc"}
  /\ last.x = x
  /\ StepDefined(it[x], -1)
  /\ LET r == IF last.op = "preinc" THEN OpPreDec(it[x]) ELSE OpPostDec(it[x])
     IN  /\ it' = [it EXCEPT ![x] = r.self]
         /\ last' = [NoLast EXCEPT !.op = "roundtrip", !.x = x,
                                   !.pre = last.pre, !.oth = it[x],
                                   !.rit = r.ret, !.byRef = r.byRef]
  /\ UNCHANGED <<H, pc, acc>>

\* x - y (IteratorCore only: the older iterator has no such operator)
ADiff(x) ==
  /\ Idle
  /\ it[x].impl = "core"
  /\ SameType(it[x], it[Other(x)])
  /\ IntDefined(it[x].current_ - it[Other(x)].current_)
  /\ last' = [NoLast EXCEPT !.op = "diff", !.x = x, !.pre = it[x],
                            !.oth = it[Other(x)],
                            !.rint = CoreDiff(it[x], it[Other(x)])]
  /\ UNCHANGED <<H, it, pc, acc>>

\* x == y, x != y, x < y, x > y, x <= y, x >= y
ACompare(x) ==
  /\ Idle
  /\ SameType(it[x], it[Other(x)])
  /\ last' = [NoLast EXCEPT !.op = "cmp", !.x = x, !.pre = it[x],
                            !.oth = it[Other(x)],
                            !.cmp = OpCmp(it[x], it[Other(x)])]
  /\ UNCHANGED <<H, it, pc, acc>>

\* read *x
ADeref(x) ==
  /\ Idle
  /\ Valid(H, OpDeref(it[x]))
  /\ last' = [NoLast EXCEPT !.op = "deref", !.x = x, !.pre = it[x],
                            !.ref = OpDeref(it[x]),
                            !.val = Read(H, OpDeref(it[x]))]
  /\ UNCHANGED <<H, it, pc, acc>>

\* x[k] and *(x + k), for an offset with position + k inside [0, n)
AIndex(x, k) ==
  /\ Idle
  /\ it[x].current_ + k \in 0 .. Length(H) - 1
  /\ OffsetDefined(it[x], k)
  /\ last' = [NoLast EXCEPT !.op = "index", !.x = x, !.k = k, !.pre = it[x],
                            !.ref = OpSubscript(it[x], k),
                            !.ref2 = OpDeref(OpPlus(it[x], k))]
  /\ UNCHANGED <<H, it, pc, acc>>

\* *x = v, which compiles only when the element reference is not const
AAssign(x, v) ==
  /\ Idle
  /\ ~HandledReturnIsConst(it[x])
  /\ Valid(H, OpDeref(it[x]))
  /\ H' = Store(H, OpDeref(it[x]), v)
  /\ last' = [NoLast EXCEPT !.op = "assign", !.x = x, !.pre = it[x],
                            !.ref = OpDeref(it[x]), !.val = v]
  /\ UNCHANGED <<it, pc, acc>>

\* host[p] = v, written by the host's owner without any iterator
AHostWrite(p, v) ==
  /\ Idle
  /\ p \in 0 .. Length(H) - 1
  /\ H' = Store(H, ElemRef(p), v)
  /\ last' = [NoLast EXCEPT !.op = "hostwrite", !.k = p, !.val = v]
  /\ UNCHANGED <<it, pc, acc>>

\* end() - begin(), and begin() == end()
ADistance(view) ==
  /\ Idle
  /\ H.mixin = "For"
  /\ view \in Views(H)
  /\ IntDefined(End(H, view).current_ - Begin(H, view).current_)
  /\ last' = [NoLast EXCEPT !.op = "distance", !.view = view,
                            !.pre = End(H, view), !.oth = Begin(H, view),
                            !.rint = CoreDiff(End(H, view), Begin(H, view)),
                            !.cmp = CoreCmp(Begin(H, view), End(H, view))]
  /\ UNCHANGED <<H, it, pc, acc>>

\* (x + k) - k and (x + k) - x
AAddInverse(x, k) ==
  /\ Idle
  /\ it[x].impl = "core"
  /\ PtrDefined(it[x].current_ + k)
  /\ PtrDefined(CorePlus(it[x], k).current_ - k)
  /\ IntDefined(CorePlus(it[x], k).current_ - it[x].current_)
  /\ last' = [NoLast EXCEPT !.op = "addinv", !.x = x, !.k = k, !.pre = it[x],
                !.oth = CorePlus(it[x], k),
                !.rit = CoreMinus(CorePlus(it[x], k), k),
                !.cmp = CoreCmp(CoreMinus(CorePlus(it[x], k), k), it[x]),
                !.rint = CoreDiff(CorePlus(it[x], k), it[x])]
  /\ UNCHANGED <<H, it, pc, acc>>

Next ==
  \/ \E x \in Names, v \in {"mut", "const", "c"} : ABegin(x, v)
  \/ \E x \in Names, v \in {"mut", "const", "c"} : AEnd(x, v)
  \/ \E x \in Names : APreInc(x)
  \/ \E x \in Names : APostInc(x)
  \/ \E x \in Names : APreDec(x)
  \/ \E x \in Names : APostDec(x)
  \/ \E x \in Names, k \in Offsets : APlusAssign(x, k)
  \/ \E x \in Names, k \in Offsets : AMinusAssign(x, k)
  \/ \E x \in Names : ADiff(x)
  \/ \E x \in Names : ACompare(x)
  \/ \E v \in {"mut", "const", "c"} : ADistance(v)
  \/ \E x \in Names, k \in Offsets : AAddInverse(x, k)
  \/ \E x \in Names, k \in PtrT : AIndex(x, k)
  \/ \E x \in Names : ARoundTrip(x)
  \/ AReturn

Spec == Init /\ [][Next]_vars

-----------------------------------------------------------------------------
(* SpecElem: a caller reading and writing the host's elements through       *)
(* iterators it keeps inside [begin, end]                                   *)

\* the values a caller writes
WriteVals == Values \cup {5}

InitElem ==
  /\ \E m \in {"For", "Iterable"},
        e \in SeqsUpTo(Values, MaxLen) \cup {<<1, 2, 3>>} :
       H = Host(m, FALSE, e, <<>>)
  /\ \E v \in Views(H) : it = [i |-> Begin(H, v), j |-> Begin(H, v)]
  /\ last = NoLast
  /\ pc = "elem"
  /\ acc = [NoAcc EXCEPT !.h0 = H.elems]

NextElem ==
  \/ \E x \in Names, v \in {"mut", "const", "c"} : ABegin(x, v)
  \/ \E x \in Names, v \in {"mut", "const", "c"} : AEnd(x, v)
  \/ \E x \in Names : APreInc(x)
  \/ \E x \in Names : APreDec(x)
  \/ \E x \in Names : ADeref(x)
  \/ \E x \in Names, v \in WriteVals : AAssign(x, v)
  \/ \E p \in 0 .. Length(H) - 1, v \in WriteVals : AHostWrite(p, v)
  \/ AReturn

SpecElem == InitElem /\ [][NextElem]_vars

-----------------------------------------------------------------------------
(* SpecLoop: for (i = begin(); i != end(); ++i) visit(i[0])                *)

\* what iterating the host is to yield: data_ when the host exposes it
Range(h) == IF h.HasPubContainer THEN h.data_ ELSE h.elems

LoopElems == SeqsUpTo(Values, MaxLen) \cup {<<10, 20, 30, 40>>}
LoopHosts ==
  {Host(m, FALSE, e, <<>>) : m \in {"For", "Iterable"}, e \in LoopElems}
  \cup {Host("For", TRUE, e, d) :
          e \in SeqsUpTo(Values, 1), d \in SeqsUpTo(Values, MaxLen) \cup {<<7, 8, 9>>}}

InitLoop ==
  /\ H \in LoopHosts
  /\ it = [i |-> NoIt, j |-> NoIt]
  /\ last = NoLast
  /\ pc = "start"
  /\ \E v \in Views(H) : acc = [NoAcc EXCEPT !.view = v, !.h0 = Range(H)]

\* i = begin()
LoopBegin ==
  /\ pc = "start"
  /\ it' = [it EXCEPT !.i = Begin(H, acc.view)]
  /\ pc' = "test"
  /\ UNCHANGED <<H, last, acc>>

\* i != end()
LoopTest ==
  /\ pc = "test"
  /\ it' = [it EXCEPT !.j = End(H, acc.view)]
  /\ pc' = IF OpCmp(it.i, End(H, acc.view)).ne THEN "body" ELSE "done"
  /\ UNCHANGED <<H, last, acc>>

\* visit(i[0]), a dereference of i; dereferencing outside the host is undefined behaviour
LoopBody ==
  /\ pc = "body"
  /\ Len(acc.visited) <= IntMod
  /\ IF Valid(H, OpDeref(it.i))
     THEN /\ acc' = [acc EXCEPT
                       !.visited = Append(@, OpDeref(it.i).idx),
                       !.vals = Append(@, Read(H, OpDeref(it.i))),
                       !.sum = @ + Read(H, OpDeref(it.i))]
          /\ pc' = "inc"
     ELSE /\ acc' = acc
          /\ pc' = "ub"
  /\ UNCHANGED <<H, it, last>>

\* ++i; overflowing the int position is undefined behaviour
LoopInc ==
  /\ pc = "inc"
  /\ IF StepDefined(it.i, 1)
     THEN /\ it' = [it EXCEPT !.i = OpPreInc(it.i).self]
          /\ pc' = "test"
     ELSE /\ it' = it
          /\ pc' = "ub"
  /\ UNCHANGED <<H, last, acc>>

NextLoop == LoopBegin \/ LoopTest \/ LoopBody \/ LoopInc

SpecLoop == InitLoop /\ [][NextLoop]_vars

\* the loop is straight-line code: a step that can be taken is taken
SpecLoopFair == SpecLoop /\ WF_vars(NextLoop)

-----------------------------------------------------------------------------
\* SpecSort: a random-access insertion sort over [begin(), end()), the
\* path a standard sort takes for a short range; it touches the host only
\* through the iterator's operations:
\*   for (i = first + 1; i != last; ++i) {
\*     val = i[0];
\*     for (j = i; j != first && val < j[-1]; --j) j[0] = j[-1];
\*     j[0] = val; }
\* where x[0] is written as a dereference of x and j[-1] both as a
\* dereference of j - 1 and as a subscript.

SortValues == {1, 2, 3}
SortHosts ==
  {Host("For", FALSE, e, <<>>) :
     e \in SeqsUpTo(SortValues, MaxLen + 1) \cup {<<3, 1, 4, 1, 5, 9, 2, 6>>}}

InitSort ==
  /\ H \in SortHosts
  /\ it = [i |-> NoIt, j |-> NoIt]
  /\ last = NoLast
  /\ pc = "s_start"
  /\ acc = [NoAcc EXCEPT !.view = "mut", !.h0 = H.elems]

\* if (first == last) return; the range is last - first long; i = first + 1
SortStart ==
  /\ pc = "s_start"
  /\ acc' = [acc EXCEPT !.sum = CoreDiff(End(H, "mut"), Begin(H, "mut"))]
  /\ IF OpCmp(Begin(H, "mut"), End(H, "mut")).eq
     THEN pc' = "done" /\ it' = it
     ELSE pc' = "s_outer" /\ it' = [it EXCEPT !.i = OpPlus(Begin(H, "mut"), 1)]
  /\ UNCHANGED <<H, last>>

\* i != last ? (val = *i, j = i) : return
SortOuter ==
  /\ pc = "s_outer"
  /\ IF OpCmp(it.i, End(H, "mut")).ne
     THEN IF Valid(H, OpDeref(it.i))
          THEN /\ acc' = [acc EXCEPT !.val = Read(H, OpDeref(it.i))]
               /\ it' = [it EXCEPT !.j = it.i]
               /\ pc' = "s_inner"
          ELSE UNCHANGED <<acc, it>> /\ pc' = "ub"
     ELSE UNCHANGED <<acc, it>> /\ pc' = "done"
  /\ UNCHANGED <<H, last>>

\* j != first && val < j[-1] ? (j[0] = j[-1], --j) : leave the inner loop
SortInner ==
  /\ pc = "s_inner"
  /\ IF OpCmp(it.j, Begin(H, "mut")).ne
     THEN IF /\ Valid(H, OpDeref(OpMinus(it.j, 1)))
             /\ Valid(H, OpSubscript(it.j, -1))
             /\ Valid(H, OpDeref(it.j))
          THEN IF acc.val < Read(H, OpDeref(OpMinus(it.j, 1)))
               THEN /\ H' = Store(H, OpDeref(it.j), Read(H, OpSubscript(it.j, -1)))
                    /\ it' = [it EXCEPT !.j = OpPreDec(it.j).self]
                    /\ pc' = "s_inner"
               ELSE UNCHANGED <<H, it>> /\ pc' = "s_place"
          ELSE UNCHANGED <<H, it>> /\ pc' = "ub"
     ELSE UNCHANGED <<H, it>> /\ pc' = "s_place"
  /\ UNCHANGED <<last, acc>>

\* *j = val; ++i
SortPlace ==
  /\ pc = "s_place"
  /\ IF Valid(H, OpDeref(it.j)) /\ ~HandledReturnIsConst(it.j)
     THEN /\ H' = Store(H, OpDeref(it.j), acc.val)
          /\ it' = [it EXCEPT !.i = OpPreInc(it.i).self]
          /\ pc' = "s_outer"
     ELSE UNCHANGED <<H, it>> /\ pc' = "ub"
  /\ UNCHANGED <<last, acc>>

NextSort == SortStart \/ SortOuter \/ SortInner \/ SortPlace

SpecSort == InitSort /\ [][NextSort]_vars

-----------------------------------------------------------------------------
(* Claims *)

C2_WitnessBegin ==
  /\ last.op = "index"
  /\ last.pre = Begin(H, "mut")
  /\ last.k = Length(H) - 1

\* C4 (as claimed): for any iterator i and any std::ptrdiff_t offset k,
\* (i + k) - k == i and (i + k) - i == k.
C4_AddInverse ==
  last.op = "addinv" => last.cmp.eq /\ last.rint = last.k

\* C5: for two iterators over the same host exactly one of <, ==, > holds,
\* it agrees with the integer comparison of the positions, and !=, <=, >=
\* are the negations of ==, >, <.
C5_Ordering ==
  last.op = "cmp" =>
    LET c == last.cmp
        p == last.pre.current_
        q == last.oth.current_
    IN  /\ Cardinality({r \in {"lt", "eq", "gt"} : c[r]}) = 1
        /\ c.lt <=> p < q
        /\ c.eq <=> p = q
        /\ c.gt <=> p > q
        /\ c.ne <=> ~c.eq
        /\ c.le <=> ~c.gt
        /\ c.ge <=> ~c.lt

C5_Witness ==
  /\ last.op = "cmp"
  /\ last.pre.impl = "core"
  /\ last.cmp.lt
  /\ last.pre.current_ < 0

\* C6: ++i then --i, and i++ then i--, leave i where it was; a prefix form
\* moves i by one and returns i itself at the new position, a postfix form
\* moves i by one and returns a separate copy at the old position.
C6_IncDec ==
  last.pre.impl = "core" =>
    /\ last.op = "preinc" =>
         /\ it[last.x].current_ = last.pre.current_ + 1
         /\ last.rit = it[last.x] /\ last.byRef
    /\ last.op = "predec" =>
         /\ it[last.x].current_ = last.pre.current_ - 1
         /\ last.rit = it[last.x] /\ last.byRef
    /\ last.op = "postinc" =>
         /\ it[last.x].current_ = last.pre.current_ + 1
         /\ last.rit = last.pre /\ ~last.byRef
    /\ last.op = "postdec" =>
         /\ it[last.x].current_ = last.pre.current_ - 1
         /\ last.rit = last.pre /\ ~last.byRef
    /\ last.op = "roundtrip" =>
         /\ it[last.x] = last.pre
         /\ last.byRef => last.rit = it[last.x]
         /\ ~last.byRef => last.rit = last.oth

C6_Witness ==
  /\ last.op = "roundtrip"
  /\ last.pre.impl = "core"
  /\ ~last.byRef
  /\ last.x = "i"
  /\ last.pre.current_ = IntMin

\* the two halves of C7: an iterator obtained through a constant view
\* (begin() const, end() const, cbegin, cend) has a const element reference
\* and an assignment through it is never possible (C7_ConstView); through an
\* iterator of the mutable view an assignment of v at position p sets
\* element p to v and changes no other element and not the length
\* (C7_AssignEffect, a step property).
C7_ConstView ==
  /\ (last.op \in {"begin", "end"} /\ H.mixin = "For") =>
       (HandledReturnIsConst(last.rit) <=> last.view \in {"const", "c"})
  /\ (last.op \in {"begin", "end"} /\ last.view = "mut") =>
       ~HandledReturnIsConst(last.rit)
  /\ \A x \in Names :
       (Idle /\ Valid(H, OpDeref(it[x]))) =>
         (ENABLED AAssign(x, 5) <=> ~it[x].cnst)

C7_AssignEffect ==
  (Idle /\ last'.op = "assign") =>
    /\ ~last'.pre.cnst
    /\ last'.ref = ElemRef(last'.pre.current_)
    /\ Len(H'.elems) = Len(H.elems)
    /\ \A q \in 1 .. Len(H.elems) :
         H'.elems[q] = IF q = last'.pre.current_ + 1 THEN last'.val
                       ELSE H.elems[q]
    /\ it' = it

\* C7: constant-view iterators never permit an assignment, mutable-view
\* iterators do, and an assignment changes exactly the element it addresses.
C7_Constness == [](C7_ConstView) /\ [][C7_AssignEffect]_vars

C7_Witness ==
  /\ last.op = "assign"
  /\ acc.h0 = <<1, 2, 3>>
  /\ H.elems = <<1, 5, 3>>
  /\ last.val = 5
  /\ last.pre.current_ = 1
  /\ it[Other(last.x)].cnst

\* the two halves of C10: an iterator reads the host anew at every
\* dereference, so after element writes (on the host directly or through
\* another iterator) a dereference at position p yields the host's current
\* element p (C10_DerefCurrent); a write changes no iterator's position and
\* no comparison of two iterators (C10_WriteFrame, a step property).
C10_DerefCurrent ==
  last.op = "deref" =>
    /\ last.ref = ElemRef(last.pre.current_)
    /\ last.val = H.elems[last.pre.current_ + 1]

C10_WriteFrame ==
  (Idle /\ last'.op \in {"assign", "hostwrite"}) =>
    /\ it' = it
    /\ Len(H'.elems) = Len(H.elems)
    /\ \A x \in Names :
         SameType(it[x], it[Other(x)]) =>
           OpCmp(it'[x], it'[Other(x)]) = OpCmp(it[x], it[Other(x)])
    /\ \A x \in Names :
         Valid(H, OpDeref(it[x])) =>
           Read(H', OpDeref(it'[x])) = H'.elems[it[x].current_ + 1]

\* C10: a dereference always yields the host's current element, and element
\* writes move no iterator and change no comparison.
C10_LiveView == [](C10_DerefCurrent) /\ [][C10_WriteFrame]_vars

C10_Witness ==
  /\ last.op = "deref"
  /\ last.pre.cnst
  /\ Len(acc.h0) = Len(H.elems)
  /\ last.val # acc.h0[last.ref.idx + 1]

\* the safety half of C3: the loop never leaves the host, visits positions
\* 0, 1, ..., n-1 in this order, each once, and has made exactly n visits
\* when it stops; the host [10, 20, 30, 40] sums to 100 and an empty host
\* is not visited at all.
C3_Visits ==
  /\ pc # "ub"
  /\ Len(acc.visited) <= Len(Range(H))
  /\ \A q \in 1 .. Len(acc.visited) : acc.visited[q] = q - 1
  /\ pc = "done" =>
       /\ Len(acc.visited) = Len(Range(H))
       /\ acc.vals = Range(H)
       /\ Range(H) = <<10, 20, 30, 40>> => acc.sum = 100

C3_WitnessEmpty == pc = "done" /\ Range(H) = <<>> /\ acc.visited = <<>>

\* C9: for a host with a public iterable data_, begin()/end() in every view
\* are data_'s own begin/end, so iterating the host yields data_'s elements
\* in data_'s order; a host without data_ gets the synthesized iterator.
C9_Delegation ==
  (H.mixin = "For" /\ pc \notin {"start", "ub"}) =>
    /\ H.HasPubContainer =>
         /\ it.i.impl = "native"
         /\ pc # "test" => it.j = NativeIterator(acc.view # "mut", Len(H.data_))
         /\ \A q \in 1 .. Len(acc.vals) : acc.vals[q] = H.data_[q]
         /\ pc = "done" => acc.vals = H.data_
    /\ ~H.HasPubContainer =>
         /\ it.i.impl = "core"
         /\ pc # "test" => it.j.impl = "core"

C9_Witness ==
  /\ pc = "done"
  /\ H.HasPubContainer
  /\ H.data_ = <<7, 8, 9>>
  /\ H.elems # H.data_
  /\ acc.vals = <<7, 8, 9>>

Sorted(e) == \A q \in 1 .. Len(e) - 1 : e[q] <= e[q + 1]
Count(e, v) == Cardinality({q \in 1 .. Len(e) : e[q] = v})
Permutation(a, b) ==
  /\ Len(a) = Len(b)
  /\ \A q \in 1 .. Len(a) : Count(a, a[q]) = Count(b, a[q])

=============================================================================
